---- MODULE Spec2Model ----
(***************************************************************************)
(* Model of srv.py: a mock REST service that keeps cache "groups" in the   *)
(* in-memory mapping GROUPS and gives every new group two addresses of     *)
(* ALLOC_SUBNET.                                                           *)
(*                                                                         *)
(* Representation.                                                         *)
(*  - Python None is the string "None"; request fields that are absent     *)
(*    from the request are None.                                           *)
(*  - Addresses are the dotted strings str(addr) produces.                 *)
(*  - memsize floats are kept in tenths (0.5 is 5, 1.2 is 12).             *)
(*  - uuid4().hex is an identifier never issued before (a collision of     *)
(*    two 122-bit random values is not modelled); identifiers are issued   *)
(*    in the order u1, u2, ...                                             *)
(*  - reqparse (flask_restful) is modelled by what RequestParser does for  *)
(*    the arguments srv.py declares: a required argument is rejected with  *)
(*    400 when it is absent from the request, an argument with type=float  *)
(*    is rejected with 400 when float() raises, an absent optional         *)
(*    argument takes its default.                                          *)
(***************************************************************************)
EXTENDS Integers, Sequences, FiniteSets, TLC

VARIABLES GROUPS, created, resp, tasks, running

vars == <<GROUPS, created, resp, tasks, running>>

(***************************************************************************)
(* Bounds                                                                  *)
(***************************************************************************)
\* number of addresses of ALLOC_SUBNET that are enumerated (2^16 in srv.py)
NetSize == 6
\* number of identifiers uuid4 hands out in a run (the two seeds included)
MaxGroups == 3
\* number of requests the server has in progress at a time (SpecConc)
NumGreenlets == 2
\* number of creates the server accepts in a run of SpecConc
MaxCreates == 2

None == "None"

ALLOC_SUBNET == [addr |-> "172.20.0.0", prefixlen |-> 16]

\* str(addr) for the k-th address of ipaddress.ip_network(ALLOC_SUBNET)
AddrStr(k) == "172.20." \o ToString(k \div 256) \o "." \o ToString(k % 256)

\* ipaddress.ip_network(ALLOC_SUBNET), in iteration order
net == [i \in 1..NetSize |-> AddrStr(i - 1)]

\* uuid4().hex of the n-th call
uuid4(n) == "u" \o ToString(n)

UUIDS == {uuid4(n) : n \in 1..MaxGroups}

Min(S) == CHOOSE m \in S : \A o \in S : m <= o

\* the addr of every instance of every group of the mapping G
InstanceAddrs(G) ==
    {G[g].instances[i].addr : g \in DOMAIN G, i \in 1..2}

\* allocate_ip with the scan of the store left out: only the network address
\* and skip are unavailable
allocate_ip_ignores_store(G, skip) ==
    LET except_list == {ALLOC_SUBNET.addr} \cup skip
        free == {i \in 1..NetSize : net[i] \notin except_list}
    IN  IF free = {} THEN None ELSE net[Min(free)]

\* allocate_ip returning the last free address of the scan instead of the
\* first
allocate_ip_highest(G, skip) ==
    LET allocated_ips == {ALLOC_SUBNET.addr} \cup InstanceAddrs(G)
        except_list == allocated_ips \cup skip
        free == {i \in 1..NetSize : net[i] \notin except_list}
    IN  IF free = {} THEN None
        ELSE net[CHOOSE m \in free : \A o \in free : m >= o]

\* allocate_ip scanning the host addresses only (the last address of the
\* subnet is never given out)
allocate_ip_hosts_only(G, skip) ==
    LET allocated_ips == {ALLOC_SUBNET.addr} \cup InstanceAddrs(G)
        except_list == allocated_ips \cup skip
        free == {i \in 2..(NetSize - 1) : net[i] \notin except_list}
    IN  IF free = {} THEN None ELSE net[Min(free)]

allocate_ip(G, skip) ==
    LET allocated_ips == {ALLOC_SUBNET.addr} \cup InstanceAddrs(G)
        except_list == allocated_ips \cup skip
        free == {i \in 1..NetSize : net[i] \notin except_list}
    IN  IF free = {} THEN None ELSE net[Min(free)]

OK_STATE == [id |-> "1", name |-> "OK", type |-> "passing"]

\* create_group with the second allocation not skipping the first address
create_group_no_skip(G, group_id, name, memsize) ==
    LET ip1 == allocate_ip(G, {})
        ip2 == allocate_ip(G, {})
    IN  [name |-> name,
         id |-> group_id,
         memsize |-> memsize,
         type |-> "memcached",
         state |-> OK_STATE,
         instances |-> << [id |-> group_id \o "_1", name |-> "1",
                           addr |-> ip1, host |-> "localhost"],
                          [id |-> group_id \o "_2", name |-> "2",
                           addr |-> ip2, host |-> "localhost"] >>]

\* create_group giving both instances the identifier and name of the first
create_group_same_instance_id(G, group_id, name, memsize) ==
    LET ip1 == allocate_ip(G, {})
        ip2 == allocate_ip(G, {ip1})
    IN  [name |-> name,
         id |-> group_id,
         memsize |-> memsize,
         type |-> "memcached",
         state |-> OK_STATE,
         instances |-> << [id |-> group_id \o "_1", name |-> "1",
                           addr |-> ip1, host |-> "localhost"],
                          [id |-> group_id \o "_1", name |-> "1",
                           addr |-> ip2, host |-> "localhost"] >>]

create_group(G, group_id, name, memsize) ==
    LET ip1 == allocate_ip(G, {})
        ip2 == allocate_ip(G, {ip1})
    IN  [name |-> name,
         id |-> group_id,
         memsize |-> memsize,
         type |-> "memcached",
         state |-> OK_STATE,
         instances |-> << [id |-> group_id \o "_1", name |-> "1",
                           addr |-> ip1, host |-> "localhost"],
                          [id |-> group_id \o "_2", name |-> "2",
                           addr |-> ip2, host |-> "localhost"] >>]

\* the addresses of the two instances of a group, in order
Addrs(group) == <<group.instances[1].addr, group.instances[2].addr>>

\* G[k] = v of a Python dict
DictSet(G, k, v) == [x \in DOMAIN G \cup {k} |-> IF x = k THEN v ELSE G[x]]

\* del G[k]
DictDel(G, k) == [x \in DOMAIN G \ {k} |-> G[x]]

EmptyDict == [x \in {} |-> None]

(***************************************************************************)
(* reqparse                                                                *)
(***************************************************************************)
\* the strings float() accepts among the request values, with their value
FloatTable == [s \in {"0", "0.5", "1.2"} |->
                 CASE s = "0" -> 0 [] s = "0.5" -> 5 [] s = "1.2" -> 12]

\* the values a client may send for name and for memsize (None: not sent)
NameInputs == {None, "", "X"}
MemInputs == {None, "0", "1.2", "abc"}

\* flask_restful.abort(status, message=...)
abort(status, message) == [status |-> status, body |-> [message |-> message]]

\* RequestParser.parse_args() for add_argument('name', required=required)
\* and add_argument('memsize', type=float, default=0.5)
parse_args(required, name, memsize) ==
    IF required /\ name = None
    THEN [ok |-> FALSE,
          error |-> abort(400, "name: Missing required parameter")]
    ELSE IF memsize # None /\ memsize \notin DOMAIN FloatTable
    THEN [ok |-> FALSE,
          error |-> abort(400, "memsize: could not convert string to float")]
    ELSE [ok |-> TRUE,
          name |-> name,
          memsize |-> IF memsize = None THEN 5 ELSE FloatTable[memsize]]

\* bool(v) of a parsed name (None or a string)
TruthyStr(v) == v # None /\ v # ""

\* bool(v) of a parsed memsize (a float)
TruthyNum(v) == v # 0

(***************************************************************************)
(* Handlers: each maps the store and the request to the store afterwards   *)
(* and the response.                                                       *)
(***************************************************************************)
NotFoundMessage(group_id) == "group " \o group_id \o " doesn't exist"

abort_if_group_doesnt_exist(G, group_id) ==
    IF group_id \notin DOMAIN G
    THEN [aborted |-> TRUE, error |-> abort(404, NotFoundMessage(group_id))]
    ELSE [aborted |-> FALSE]

\* Group.get taking the group out of the mapping (GROUPS.pop) to return it
Group_get_pops(G, group_id) ==
    LET chk == abort_if_group_doesnt_exist(G, group_id)
    IN  IF chk.aborted
        THEN [store |-> G, status |-> chk.error.status, body |-> chk.error.body]
        ELSE [store |-> DictDel(G, group_id), status |-> 200,
              body |-> G[group_id]]

Group_get(G, group_id) ==
    LET chk == abort_if_group_doesnt_exist(G, group_id)
    IN  IF chk.aborted
        THEN [store |-> G, status |-> chk.error.status, body |-> chk.error.body]
        ELSE [store |-> G, status |-> 200, body |-> G[group_id]]

\* Group.delete emptying the whole mapping instead of deleting one key
Group_delete_clears(G, group_id) ==
    LET chk == abort_if_group_doesnt_exist(G, group_id)
    IN  IF chk.aborted
        THEN [store |-> G, status |-> chk.error.status, body |-> chk.error.body]
        ELSE [store |-> EmptyDict, status |-> 204, body |-> ""]

Group_delete(G, group_id) ==
    LET chk == abort_if_group_doesnt_exist(G, group_id)
    IN  IF chk.aborted
        THEN [store |-> G, status |-> chk.error.status, body |-> chk.error.body]
        ELSE [store |-> DictDel(G, group_id), status |-> 204, body |-> ""]

\* Group.put assigning memsize without testing its truth value
Group_put_applies_zero(G, group_id, name, memsize) ==
    LET args == parse_args(FALSE, name, memsize)
    IN  IF ~args.ok
        THEN [store |-> G, status |-> args.error.status,
              body |-> args.error.body]
        ELSE IF group_id \notin DOMAIN G
        THEN [store |-> G, status |-> 500, body |-> [message |-> "KeyError"]]
        ELSE LET group == G[group_id]
                 g1 == IF TruthyStr(args.name)
                       THEN [group EXCEPT !.name = args.name] ELSE group
                 g2 == [g1 EXCEPT !.memsize = args.memsize]
             IN  [store |-> DictSet(G, group_id, g2), status |-> 201,
                  body |-> g2]

\* Group.put building a group for an identifier that is not in the store
\* instead of raising KeyError
Group_put_upsert(G, group_id, name, memsize) ==
    LET args == parse_args(FALSE, name, memsize)
    IN  IF ~args.ok
        THEN [store |-> G, status |-> args.error.status,
              body |-> args.error.body]
        ELSE LET group == IF group_id \in DOMAIN G THEN G[group_id]
                          ELSE create_group(G, group_id, None, 5)
                 g1 == IF TruthyStr(args.name)
                       THEN [group EXCEPT !.name = args.name] ELSE group
                 g2 == IF TruthyNum(args.memsize)
                       THEN [g1 EXCEPT !.memsize = args.memsize] ELSE g1
             IN  [store |-> DictSet(G, group_id, g2), status |-> 201,
                  body |-> g2]

\* Group.put assigning the new name and memsize to every stored group
Group_put_updates_all(G, group_id, name, memsize) ==
    LET args == parse_args(FALSE, name, memsize)
        upd(group) ==
            LET g1 == IF TruthyStr(args.name)
                      THEN [group EXCEPT !.name = args.name] ELSE group
            IN  IF TruthyNum(args.memsize)
                THEN [g1 EXCEPT !.memsize = args.memsize] ELSE g1
    IN  IF ~args.ok
        THEN [store |-> G, status |-> args.error.status,
              body |-> args.error.body]
        ELSE IF group_id \notin DOMAIN G
        THEN [store |-> G, status |-> 500, body |-> [message |-> "KeyError"]]
        ELSE [store |-> [g \in DOMAIN G |-> upd(G[g])], status |-> 201,
              body |-> upd(G[group_id])]

\* GROUPS[group_id] of an absent key raises KeyError, which no handler of
\* srv.py catches: the server answers 500 and the store is as it was.
Group_put(G, group_id, name, memsize) ==
    LET args == parse_args(FALSE, name, memsize)
    IN  IF ~args.ok
        THEN [store |-> G, status |-> args.error.status,
              body |-> args.error.body]
        ELSE IF group_id \notin DOMAIN G
        THEN [store |-> G, status |-> 500, body |-> [message |-> "KeyError"]]
        ELSE LET group == G[group_id]
                 g1 == IF TruthyStr(args.name)
                       THEN [group EXCEPT !.name = args.name] ELSE group
                 g2 == IF TruthyNum(args.memsize)
                       THEN [g1 EXCEPT !.memsize = args.memsize] ELSE g1
             IN  [store |-> DictSet(G, group_id, g2), status |-> 201,
                  body |-> g2]

GroupList_get(G) == [store |-> G, status |-> 200, body |-> G]

\* GroupList.post storing the new group under its name instead of its id
GroupList_post_keyed_by_name(G, n, name, memsize) ==
    LET args == parse_args(TRUE, name, memsize)
    IN  IF ~args.ok
        THEN [store |-> G, status |-> args.error.status,
              body |-> args.error.body]
        ELSE LET group == create_group(G, uuid4(n), args.name, args.memsize)
             IN  [store |-> DictSet(G, group.name, group), status |-> 201,
                  body |-> group]

\* n: the number of the uuid4 call this request makes
GroupList_post(G, n, name, memsize) ==
    LET args == parse_args(TRUE, name, memsize)
    IN  IF ~args.ok
        THEN [store |-> G, status |-> args.error.status,
              body |-> args.error.body]
        ELSE LET group == create_group(G, uuid4(n), args.name, args.memsize)
             IN  [store |-> DictSet(G, group.id, group), status |-> 201,
                  body |-> group]

StateList_get(G) ==
    [store |-> G, status |-> 200,
     body |-> [k \in {"1", "2", "3"} |->
                CASE k = "1" -> [id |-> "1", name |-> "OK", type |-> "passing"]
                  [] k = "2" -> [id |-> "2", name |-> "Degraded",
                                 type |-> "warning"]
                  [] k = "3" -> [id |-> "3", name |-> "Down",
                                 type |-> "critical"]]]

(***************************************************************************)
(* Bootstrap: the two groups seeded before the server starts               *)
(***************************************************************************)
group1 == create_group(EmptyDict, uuid4(1), "memcached for Bob", 5)

GROUPS1 == DictSet(EmptyDict, group1.id, group1)

\* group2 built before group1 is put in the store
group2_unseeded == create_group(EmptyDict, uuid4(2), "memcached for Alice", 12)

group2 == create_group(GROUPS1, uuid4(2), "memcached for Alice", 12)

GROUPS2 == DictSet(GROUPS1, group2.id, group2)

\* resp before the first request is served
NoRequest == [method |-> "", path |-> "", group_id |-> None,
              name |-> None, memsize |-> None]

\* a greenlet that is handling no request
IdleTask == [pc |-> "idle", method |-> None, group_id |-> None,
             status |-> 0, ip1 |-> None, ip2 |-> None,
             group |-> None, seen |-> None]

Greenlets == 1..NumGreenlets

Init ==
    /\ GROUPS = GROUPS2
    /\ created = [g \in DOMAIN GROUPS2 |-> Addrs(GROUPS2[g])]
    /\ resp = [req |-> NoRequest, status |-> 0, body |-> ""]
    /\ tasks = [g \in Greenlets |-> IdleTask]
    /\ running = 0

(***************************************************************************)
(* Requests.  created records the addresses of every group create_group    *)
(* has returned, by identifier.                                            *)
(***************************************************************************)
\* the identifiers a client may put in the path: every identifier uuid4
\* can hand out and one it never hands out
PathIds == UUIDS \cup {"nope"}

Request(method, path, group_id, name, memsize) ==
    [method |-> method, path |-> path, group_id |-> group_id,
     name |-> name, memsize |-> memsize]

\* a request handled from its first statement to its last in one step
Respond(req, r) ==
    /\ GROUPS' = r.store
    /\ resp' = [req |-> req, status |-> r.status, body |-> r.body]
    /\ UNCHANGED <<tasks, running>>

GetGroup ==
    \E group_id \in PathIds :
        /\ Respond(Request("GET", "group", group_id, None, None),
                   Group_get(GROUPS, group_id))
        /\ UNCHANGED created

DeleteGroup ==
    \E group_id \in PathIds :
        /\ Respond(Request("DELETE", "group", group_id, None, None),
                   Group_delete(GROUPS, group_id))
        /\ UNCHANGED created

PutGroup ==
    \E group_id \in PathIds, name \in NameInputs, memsize \in MemInputs :
        /\ Respond(Request("PUT", "group", group_id, name, memsize),
                   Group_put(GROUPS, group_id, name, memsize))
        /\ UNCHANGED created

GetGroupList ==
    /\ Respond(Request("GET", "groups", None, None, None),
               GroupList_get(GROUPS))
    /\ UNCHANGED created

PostGroupList ==
    \E name \in NameInputs, memsize \in MemInputs :
        LET n == Cardinality(DOMAIN created) + 1
            r == GroupList_post(GROUPS, n, name, memsize)
        IN  /\ r.status = 201 => n <= MaxGroups
            /\ Respond(Request("POST", "groups", None, name, memsize), r)
            /\ created' = IF r.status = 201
                          THEN DictSet(created, r.body.id, Addrs(r.body))
                          ELSE created

GetStateList ==
    /\ Respond(Request("GET", "states", None, None, None),
               StateList_get(GROUPS))
    /\ UNCHANGED created

Next ==
    \/ GetGroup
    \/ DeleteGroup
    \/ PutGroup
    \/ GetGroupList
    \/ PostGroupList
    \/ GetStateList

Spec == Init /\ [][Next]_vars

(***************************************************************************)
(* Properties                                                              *)
(***************************************************************************)
\* the addresses of the allocation subnet
SubnetAddrs == {net[i] : i \in 1..NetSize}

\* some allocation made for a created group has returned no result
Exhausted == \E g \in DOMAIN created : \E i \in 1..2 : created[g][i] = None

\* the instance slots (group, position) of the mapping of address pairs C
Slots(C) == (DOMAIN C) \X (1..2)

IsPost(r) == r.req.method = "POST" /\ r.req.path = "groups"

IsPut(r) == r.req.method = "PUT" /\ r.req.path = "group"

IsDelete(r) == r.req.method = "DELETE" /\ r.req.path = "group"

IsGet(r) == r.req.method = "GET" /\ r.req.path = "group"

\* C1: every group create_group has returned (the seeds and every group a
\* POST has created) has two instance addresses that are addresses of the
\* allocation subnet, are not the network address and differ from each
\* other.
C1_CreatedAddrsValid ==
    \A g \in DOMAIN created :
        /\ created[g][1] \in SubnetAddrs \ {ALLOC_SUBNET.addr}
        /\ created[g][2] \in SubnetAddrs \ {ALLOC_SUBNET.addr}
        /\ created[g][1] # created[g][2]

\* C2 as stated: while no allocation has returned no result, no two
\* instances of the groups ever created (deleted ones included) have the
\* same address.
C2_EverCreatedDistinct ==
    ~Exhausted =>
        \A s \in Slots(created), t \in Slots(created) :
            s # t => created[s[1]][s[2]] # created[t[1]][t[2]]

\* C2 amended: while no allocation has returned no result, two instances of
\* the groups ever created have the same address only if they belong to two
\* different groups that are not in the store together (one was deleted
\* before the other was created).
C2_SharedOnlyAfterDelete ==
    ~Exhausted =>
        \A s \in Slots(created), t \in Slots(created) :
            (s # t /\ created[s[1]][s[2]] = created[t[1]][t[2]]) =>
                /\ s[1] # t[1]
                /\ ~(s[1] \in DOMAIN GROUPS /\ t[1] \in DOMAIN GROUPS)

\* C2 witness: an address of a deleted group has been given to a later one
C2_Witness ==
    /\ ~Exhausted
    /\ \E g \in DOMAIN created, h \in DOMAIN created :
          /\ g # h
          /\ created[g][1] = created[h][1]
          /\ g \notin DOMAIN GROUPS
          /\ h \in DOMAIN GROUPS

\* C3: while no allocation has returned no result, the addresses of all
\* instances in the store are pairwise distinct, within a group and across
\* groups.
C3_StoredAddrsDistinct ==
    ~Exhausted =>
        \A g \in DOMAIN GROUPS, h \in DOMAIN GROUPS :
            \A i \in 1..2, j \in 1..2 :
                (g # h \/ i # j) =>
                    GROUPS[g].instances[i].addr # GROUPS[h].instances[j].addr

\* C3 witness: a create has just added a group to a store that holds
\* another group, and no allocation has failed
C3_Witness ==
    /\ ~Exhausted
    /\ IsPost(resp) /\ resp.status = 201
    /\ resp.body.id \in DOMAIN GROUPS
    /\ Cardinality(DOMAIN GROUPS) >= 2

\* C4: a PUT for an identifier that is not in the store answers 404 with
\* the message naming the identifier (PUT never removes an entry, so the
\* identifier is absent after the request exactly when it was before).
C4_PutUnknownIs404 ==
    (IsPut(resp) /\ resp.req.group_id \notin DOMAIN GROUPS) =>
        /\ resp.status = 404
        /\ resp.body.message = "group " \o resp.req.group_id \o " doesn't exist"

\* C5: a PUT for a stored group that sends a name and no memsize leaves the
\* group's memsize as it was and sets its name to the name sent.
C5_PutNameOnlyKeepsMemsize ==
    [][(/\ IsPut(resp')
        /\ resp'.req.group_id \in DOMAIN GROUPS
        /\ TruthyStr(resp'.req.name)
        /\ resp'.req.memsize = None) =>
            /\ GROUPS'[resp'.req.group_id].memsize
                 = GROUPS[resp'.req.group_id].memsize
            /\ GROUPS'[resp'.req.group_id].name = resp'.req.name]_vars

\* C6: a PUT for a stored group that sends memsize 0 leaves the stored
\* memsize as it was, one that sends a non-zero memsize sets the stored
\* memsize to the value sent; both answer 201 with the updated record.
C6_PutMemsize ==
    [][(/\ IsPut(resp')
        /\ resp'.req.group_id \in DOMAIN GROUPS
        /\ resp'.req.memsize \in DOMAIN FloatTable) =>
            LET id == resp'.req.group_id
                sent == FloatTable[resp'.req.memsize]
            IN  /\ resp'.status = 201
                /\ id \in DOMAIN GROUPS'
                /\ resp'.body = GROUPS'[id]
                /\ GROUPS'[id].memsize
                     = IF sent = 0 THEN GROUPS[id].memsize ELSE sent]_vars

\* C6 witness: a PUT with memsize 0 was answered 201 and the group still has
\* its non-zero memsize
C6_Witness ==
    /\ IsPut(resp) /\ resp.status = 201
    /\ resp.req.memsize = "0"
    /\ GROUPS[resp.req.group_id].memsize = 12

\* C7: a delete answered 204 leaves the identifier out of the store; an
\* identifier that was created and is no longer in the store (it was
\* deleted) is not in the store after any later request; an identifier
\* that was never created is not in the store; and reading an identifier
\* that is not in the store answers 404.
C7_DeletedStaysNotFound ==
    /\ [](/\ (IsDelete(resp) /\ resp.status = 204) =>
                 resp.req.group_id \notin DOMAIN GROUPS
          /\ \A id \in PathIds \ DOMAIN created : id \notin DOMAIN GROUPS
          /\ (IsGet(resp) /\ resp.req.group_id \notin DOMAIN GROUPS) =>
                 resp.status = 404)
    /\ [][\A id \in DOMAIN created \ DOMAIN GROUPS :
              id \notin DOMAIN GROUPS']_vars

\* C7 witness: a deleted group is read, after a later create, and the
\* answer is 404
C7_Witness ==
    /\ IsGet(resp) /\ resp.status = 404
    /\ resp.req.group_id \in DOMAIN created \ DOMAIN GROUPS
    /\ \E g \in DOMAIN GROUPS : g \notin DOMAIN GROUPS2

\* C8: a POST that sends a non-empty name and a memsize that is absent or a
\* number answers 201; a POST answered 201 returns the created record, adds
\* exactly one entry, keyed by the new group's id, which was not a key
\* before, and leaves every other entry as it was; the new group's memsize
\* is 0.5 when none was sent and the value sent otherwise.
C8_PostAddsOne ==
    [][IsPost(resp') =>
        /\ (TruthyStr(resp'.req.name)
              /\ resp'.req.memsize \in DOMAIN FloatTable \cup {None})
             => resp'.status = 201
        /\ resp'.status = 201 =>
             LET id == resp'.body.id
             IN  /\ id \notin DOMAIN GROUPS
                 /\ DOMAIN GROUPS' = DOMAIN GROUPS \cup {id}
                 /\ GROUPS'[id] = resp'.body
                 /\ \A g \in DOMAIN GROUPS : GROUPS'[g] = GROUPS[g]
                 /\ resp'.body.memsize
                      = IF resp'.req.memsize = None THEN 5
                        ELSE FloatTable[resp'.req.memsize]]_vars

\* C8 witness: a POST without memsize was answered 201 with memsize 0.5
C8_Witness ==
    /\ IsPost(resp) /\ resp.status = 201
    /\ resp.req.memsize = None
    /\ resp.body.memsize = 5
    /\ resp.body.id \in DOMAIN GROUPS

\* C9: a POST whose name is missing or empty answers 400 and leaves the
\* store and the addresses handed out as they were.
C9_PostWithoutNameRejected ==
    [][(IsPost(resp') /\ resp'.req.name \in {None, ""}) =>
            /\ resp'.status = 400
            /\ GROUPS' = GROUPS
            /\ created' = created]_vars

\* C10: a DELETE for an identifier that is not in the store answers 404
\* with a message containing the identifier and leaves the store as it was;
\* a DELETE for a stored identifier answers 204 with an empty body, removes
\* that entry and leaves every other entry as it was.
C10_Delete ==
    [][IsDelete(resp') =>
        LET id == resp'.req.group_id
        IN  IF id \notin DOMAIN GROUPS
            THEN /\ resp'.status = 404
                 /\ resp'.body.message = "group " \o id \o " doesn't exist"
                 /\ GROUPS' = GROUPS
            ELSE /\ resp'.status = 204
                 /\ resp'.body = ""
                 /\ DOMAIN GROUPS' = DOMAIN GROUPS \ {id}
                 /\ \A g \in DOMAIN GROUPS' : GROUPS'[g] = GROUPS[g]]_vars

\* C10 witness: a DELETE was answered 204 and another group is still stored
C10_Witness ==
    /\ IsDelete(resp) /\ resp.status = 204
    /\ resp.req.group_id \notin DOMAIN GROUPS
    /\ GROUPS # EmptyDict


\* the position of an address of the subnet in ascending numeric order
AddrIndex(a) == CHOOSE i \in 1..NetSize : net[i] = a

\* the numerically lowest address of a non-empty set of subnet addresses
Lowest(S) == CHOOSE a \in S : \A b \in S : AddrIndex(a) <= AddrIndex(b)

\* the addresses of the subnet that are neither the network address nor
\* the addr of an instance of the mapping G
FreeAddrs(G) == SubnetAddrs \ ({ALLOC_SUBNET.addr} \cup InstanceAddrs(G))

\* the two lowest addresses of S in ascending order, None where S has none
TwoLowest(S) ==
    LET a1 == IF S = {} THEN None ELSE Lowest(S)
        a2 == IF S \ {a1} = {} THEN None ELSE Lowest(S \ {a1})
    IN  <<a1, a2>>

\* C12: every instance addr of every group in the store is an address of
\* the allocation subnet (a create that gets no result from the allocator
\* stores nothing).
C12_StoredAddrsInSubnet ==
    \A g \in DOMAIN GROUPS : \A i \in 1..2 :
        GROUPS[g].instances[i].addr \in SubnetAddrs

\* C13: a group that is in the store before and after a request has the
\* same id, type, state and instances; a PUT leaves the set of stored
\* identifiers and every group other than the one in its path as they were.
C13_UpdateFrame ==
    [][/\ \A g \in DOMAIN GROUPS \cap DOMAIN GROUPS' :
              /\ GROUPS'[g].id = GROUPS[g].id
              /\ GROUPS'[g].type = GROUPS[g].type
              /\ GROUPS'[g].state = GROUPS[g].state
              /\ GROUPS'[g].instances = GROUPS[g].instances
       /\ IsPut(resp') =>
              /\ DOMAIN GROUPS' = DOMAIN GROUPS
              /\ \A g \in DOMAIN GROUPS \ {resp'.req.group_id} :
                     GROUPS'[g] = GROUPS[g]]_vars

\* C13 witness: a PUT has changed the name and the memsize of the first
\* seed while the second seed is stored
C13_Witness ==
    /\ IsPut(resp) /\ resp.status = 201
    /\ resp.req.group_id = group1.id
    /\ GROUPS[group1.id].name = "X" /\ GROUPS[group1.id].memsize = 12
    /\ group2.id \in DOMAIN GROUPS

\* C15: every store entry is keyed by its group's id and holds exactly two
\* instances, with ids '<id>_1' and '<id>_2' and names '1' and '2', type
\* 'memcached' and the OK/passing state.
C15_StoredGroupShape ==
    \A k \in DOMAIN GROUPS :
        /\ GROUPS[k].id = k
        /\ Len(GROUPS[k].instances) = 2
        /\ GROUPS[k].instances[1].id = k \o "_1"
        /\ GROUPS[k].instances[2].id = k \o "_2"
        /\ GROUPS[k].instances[1].name = "1"
        /\ GROUPS[k].instances[2].name = "2"
        /\ GROUPS[k].type = "memcached"
        /\ GROUPS[k].state = [id |-> "1", name |-> "OK", type |-> "passing"]

\* C15 witness: a group created by POST has been updated and is stored
C15_Witness ==
    /\ IsPut(resp) /\ resp.status = 201
    /\ resp.req.group_id \notin DOMAIN GROUPS2
    /\ resp.req.group_id \in DOMAIN GROUPS

\* C17: a DELETE answered 204 makes the addresses of the deleted group free;
\* a POST answered 201 gives the new group the two lowest free addresses of
\* the subnet, lowest first (a position for which no free address is left
\* holds None).
C17_ReleaseAndReuse ==
    [][/\ (IsDelete(resp') /\ resp'.status = 204) =>
              \A i \in 1..2 :
                  LET a == GROUPS[resp'.req.group_id].instances[i].addr
                  IN  a # None => a \in FreeAddrs(GROUPS')
       /\ (IsPost(resp') /\ resp'.status = 201) =>
              Addrs(resp'.body) = TwoLowest(FreeAddrs(GROUPS))]_vars

\* C17 witness: a create has been given the two addresses of a deleted group
C17_Witness ==
    /\ IsPost(resp) /\ resp.status = 201
    /\ resp.body.instances[1].addr # None
    /\ resp.body.instances[2].addr # None
    /\ \E g \in DOMAIN created \ DOMAIN GROUPS :
          created[g] = Addrs(resp.body)

\* C18: before the first request is served the store holds exactly the two
\* seeds: the first with memsize 0.5 and addresses 172.20.0.1 and
\* 172.20.0.2, the second with memsize 1.2 and 172.20.0.3 and 172.20.0.4.
C18_SeededStore ==
    resp.req = NoRequest =>
        /\ DOMAIN GROUPS = {uuid4(1), uuid4(2)}
        /\ uuid4(1) # uuid4(2)
        /\ GROUPS[uuid4(1)].name = "memcached for Bob"
        /\ GROUPS[uuid4(1)].memsize = 5
        /\ Addrs(GROUPS[uuid4(1)]) = <<"172.20.0.1", "172.20.0.2">>
        /\ GROUPS[uuid4(2)].name = "memcached for Alice"
        /\ GROUPS[uuid4(2)].memsize = 12
        /\ Addrs(GROUPS[uuid4(2)]) = <<"172.20.0.3", "172.20.0.4">>

\* C18 witness: no request has been served and the store is not empty
C18_Witness ==
    /\ resp.req = NoRequest
    /\ Cardinality(DOMAIN GROUPS) = 2


(***************************************************************************)
(* The allocator and the factory called on their own.  SpecPure reaches    *)
(* the stores that creates and deletes produce and applies allocate_ip,    *)
(* create_group and the read handlers to them; resp records the call and   *)
(* the value returned.                                                     *)
(***************************************************************************)
\* the skip lists allocate_ip is called with: empty, or one entry that is
\* an address of the subnet or the None of a failed first allocation
SkipInputs == {{}} \cup {{a} : a \in SubnetAddrs \cup {None}}

Call(fn, skip) ==
    [method |-> "CALL", path |-> fn, group_id |-> None, name |-> None,
     memsize |-> None, skip |-> skip]

AllocateIp ==
    \E skip \in SkipInputs :
        /\ Respond(Call("allocate_ip", skip),
                   [store |-> GROUPS, status |-> 0,
                    body |-> allocate_ip(GROUPS, skip)])
        /\ UNCHANGED created

\* create_group called without the insertion that follows it in post
CreateGroup ==
    /\ Respond(Call("create_group", {}),
               [store |-> GROUPS, status |-> 0,
                body |-> create_group(GROUPS, uuid4(0), "X", 5)])
    /\ UNCHANGED created

NextPure ==
    \/ AllocateIp
    \/ CreateGroup
    \/ GetGroup
    \/ GetGroupList
    \/ GetStateList
    \/ PostGroupList
    \/ DeleteGroup

SpecPure == Init /\ [][NextPure]_vars

\* the addresses allocate_ip(skip) may not return for the mapping G
Unavailable(G, skip) == {ALLOC_SUBNET.addr} \cup InstanceAddrs(G) \cup skip

\* C11: allocate_ip(skip) returns no result exactly when every address of
\* the subnet is the network address, the addr of a stored instance or in
\* skip; otherwise it returns an address of the subnet that is none of
\* these and is numerically below every other such address.
C11_AllocateLowestFree ==
    (resp.req.method = "CALL" /\ resp.req.path = "allocate_ip") =>
        LET un == Unavailable(GROUPS, resp.req.skip)
        IN  /\ (resp.body = None) <=> (SubnetAddrs \subseteq un)
            /\ resp.body # None =>
                  /\ resp.body \in SubnetAddrs \ un
                  /\ \A a \in SubnetAddrs \ un :
                         AddrIndex(resp.body) <= AddrIndex(a)

\* C11 witness: allocate_ip has passed over a free address because it is in
\* skip and returned a higher one
C11_Witness ==
    /\ resp.req.method = "CALL" /\ resp.req.path = "allocate_ip"
    /\ resp.body \in SubnetAddrs
    /\ \E s \in resp.req.skip :
          /\ s \in FreeAddrs(GROUPS)
          /\ AddrIndex(s) < AddrIndex(resp.body)

\* C14: allocate_ip, create_group, list groups, read group and list health
\* states leave the store as it was, and list health states returns the
\* same three records whatever the store holds.
C14_ReadsLeaveStore ==
    /\ [][resp'.req.method \in {"GET", "CALL"} => GROUPS' = GROUPS]_vars
    /\ []((resp.req.method = "GET" /\ resp.req.path = "states") =>
            /\ resp.status = 200
            /\ DOMAIN resp.body = {"1", "2", "3"}
            /\ resp.body["1"] = [id |-> "1", name |-> "OK", type |-> "passing"]
            /\ resp.body["2"] = [id |-> "2", name |-> "Degraded",
                                 type |-> "warning"]
            /\ resp.body["3"] = [id |-> "3", name |-> "Down",
                                 type |-> "critical"])

\* C14 witness: the health states are listed for a store that is no longer
\* the seeded one
C14_Witness ==
    /\ resp.req.method = "GET" /\ resp.req.path = "states"
    /\ resp.status = 200
    /\ GROUPS # GROUPS2


(***************************************************************************)
(* Requests in progress together.  WSGIServer runs every request in a      *)
(* greenlet of one thread; a greenlet keeps the thread until it blocks on  *)
(* the socket, which a handler does when it reads the request             *)
(* (parse_args) and when its response is written, and nowhere between.    *)
(* SpecConc runs the handlers one statement at a step: running is the     *)
(* greenlet that has the thread (0: the hub), tasks[g] the position and   *)
(* the local variables of greenlet g.  A create sends name X, an update   *)
(* name X and memsize 1.2.                                                 *)
(***************************************************************************)
\* the record create_group builds from its identifier and two addresses
BuildGroup(group_id, name, memsize, ip1, ip2) ==
    [name |-> name,
     id |-> group_id,
     memsize |-> memsize,
     type |-> "memcached",
     state |-> OK_STATE,
     instances |-> << [id |-> group_id \o "_1", name |-> "1",
                       addr |-> ip1, host |-> "localhost"],
                      [id |-> group_id \o "_2", name |-> "2",
                       addr |-> ip2, host |-> "localhost"] >>]

\* the identifiers the concurrent requests name: the two seeds
ConcIds == DOMAIN GROUPS2

\* the first statement of a handler after parse_args
FirstPc(method) ==
    CASE method = "POST" -> "alloc1"
      [] method = "PUT" -> "lookup"
      [] OTHER -> "check"

\* the thread goes to the hub after a preemptive scheduler's every statement
Yields_anywhere(pc) == TRUE

\* the statements after which the greenlet gives up the thread: the ones
\* that read or write the socket
Yields(pc) == pc \in {"parse", "respond"}

\* one statement of the handler of task t on the store G; C is created
Exec(t, G, C) ==
    LET id == t.group_id
        out(task, store, cr) == [task |-> task, store |-> store, created |-> cr]
        done(status) == [t EXCEPT !.pc = "respond", !.status = status]
    IN  CASE t.pc = "parse" ->
               out([t EXCEPT !.pc = FirstPc(t.method)], G, C)
          \* create_group: ip1 = allocate_ip()
          [] t.pc = "alloc1" ->
               out([t EXCEPT !.pc = "alloc2", !.ip1 = allocate_ip(G, {})], G, C)
          \* create_group: ip2 = allocate_ip([ip1])
          [] t.pc = "alloc2" ->
               out([t EXCEPT !.pc = "insert",
                             !.ip2 = allocate_ip(G, {t.ip1})], G, C)
          \* post: GROUPS[group['id']] = group
          [] t.pc = "insert" ->
               LET group == BuildGroup(uuid4(Cardinality(DOMAIN C) + 1),
                                       "X", 5, t.ip1, t.ip2)
               IN  out(done(201), DictSet(G, group.id, group),
                       DictSet(C, group.id, Addrs(group)))
          \* put: group = GROUPS[group_id]
          [] t.pc = "lookup" ->
               IF id \notin DOMAIN G THEN out(done(500), G, C)
               ELSE out([t EXCEPT !.pc = "setname", !.group = G[id]], G, C)
          \* put: group['name'] = args['name'], on the dict the store holds
          [] t.pc = "setname" ->
               LET group == [t.group EXCEPT !.name = "X"]
               IN  out([t EXCEPT !.pc = "setmem", !.group = group],
                       IF id \in DOMAIN G THEN DictSet(G, id, group) ELSE G, C)
          \* put: group['memsize'] = args['memsize']
          [] t.pc = "setmem" ->
               LET group == [t.group EXCEPT !.memsize = 12]
               IN  out([t EXCEPT !.pc = "store", !.group = group],
                       IF id \in DOMAIN G THEN DictSet(G, id, group) ELSE G, C)
          \* put: GROUPS[group_id] = group
          [] t.pc = "store" ->
               out(done(201), DictSet(G, id, t.group), C)
          \* get, delete: abort_if_group_doesnt_exist(group_id)
          [] t.pc = "check" ->
               IF id \notin DOMAIN G THEN out(done(404), G, C)
               ELSE out([t EXCEPT !.pc = IF t.method = "DELETE"
                                         THEN "del" ELSE "read"], G, C)
          \* delete: del GROUPS[group_id]
          [] t.pc = "del" ->
               IF id \notin DOMAIN G THEN out(done(500), G, C)
               ELSE out(done(204), DictDel(G, id), C)
          \* get: return GROUPS[group_id]
          [] t.pc = "read" ->
               IF id \notin DOMAIN G THEN out(done(500), G, C)
               ELSE out([done(200) EXCEPT !.seen = G[id]], G, C)
          \* the response is written and the greenlet ends
          [] t.pc = "respond" -> out(IdleTask, G, C)

\* the creates accepted so far: the groups created and the creates in
\* progress that have not inserted their group yet
CreatesAccepted ==
    Cardinality(DOMAIN created \ DOMAIN GROUPS2)
      + Cardinality({g \in Greenlets :
                       tasks[g].method = "POST" /\ tasks[g].status = 0})

\* the hub accepts a connection and starts a greenlet for its request
Accept ==
    \E g \in Greenlets, method \in {"POST", "PUT", "DELETE", "GET"},
       id \in ConcIds :
        /\ running = 0
        /\ tasks[g].pc = "idle"
        /\ method = "POST" => (id = group1.id /\ CreatesAccepted < MaxCreates)
        /\ tasks' = [tasks EXCEPT ![g] =
                        [IdleTask EXCEPT !.pc = "parse", !.method = method,
                            !.group_id = IF method = "POST" THEN None ELSE id]]
        /\ UNCHANGED <<GROUPS, created, resp, running>>

\* the hub gives the thread to a greenlet that has a request
Switch ==
    \E g \in Greenlets :
        /\ running = 0
        /\ tasks[g].pc # "idle"
        /\ running' = g
        /\ UNCHANGED <<GROUPS, created, resp, tasks>>

\* the running greenlet executes its next statement
Step ==
    \E g \in Greenlets :
        /\ running = g
        /\ LET r == Exec(tasks[g], GROUPS, created)
           IN  /\ tasks' = [tasks EXCEPT ![g] = r.task]
               /\ GROUPS' = r.store
               /\ created' = r.created
        /\ running' = IF Yields(tasks[g].pc) THEN 0 ELSE g
        /\ UNCHANGED resp

NextConc ==
    \/ Accept
    \/ Switch
    \/ Step

SpecConc == Init /\ [][NextConc]_vars

\* the task has made its first access to the store and not yet its last
InStore(t) ==
    t.pc \in {"alloc2", "insert", "setname", "setmem", "store", "del", "read"}

\* C16: a request that is between its first and its last access to the
\* store has the thread, so no two requests are there together; the
\* addresses of the stored instances are pairwise distinct while no
\* allocation has failed; and a read never returns the first seed with its
\* new name and its old memsize.
C16_StoreAccessNotInterleaved ==
    /\ \A g \in Greenlets : InStore(tasks[g]) => running = g
    /\ \A g \in Greenlets, h \in Greenlets :
           (InStore(tasks[g]) /\ InStore(tasks[h])) => g = h
    /\ ~Exhausted =>
           \A s \in Slots(GROUPS), u \in Slots(GROUPS) :
               s # u => GROUPS[s[1]].instances[s[2]].addr
                          # GROUPS[u[1]].instances[u[2]].addr
    /\ \A g \in Greenlets :
           (tasks[g].method = "GET" /\ tasks[g].status = 200
              /\ tasks[g].group_id = group1.id) =>
               (tasks[g].seen.name = "X" <=> tasks[g].seen.memsize = 12)

\* C16 witness: two creates are in progress together, one of them between
\* its two allocations, and no allocation has failed
C16_Witness ==
    /\ ~Exhausted
    /\ \E g \in Greenlets, h \in Greenlets :
          /\ tasks[g].method = "POST" /\ tasks[g].pc = "alloc2"
          /\ tasks[g].ip1 # None
          /\ tasks[h].method = "POST" /\ tasks[h].pc = "alloc1"

====
